---------------------------- MODULE Spec2Model ----------------------------
(***************************************************************************)
(* A model of src/index.ts: the Google Drive MCP server.  The remote drive *)
(* is a sequence of files; every inbound request is a task that suspends   *)
(* only at its remote calls.  Text is a sequence of one-character strings, *)
(* file bodies are sequences of bytes (ASCII bytes are written as the      *)
(* character they encode).                                                 *)
(***************************************************************************)
EXTENDS Integers, Sequences, FiniteSets, TLC

VARIABLES drive, drive0, reqs, calls, nextId

vars == <<drive, drive0, reqs, calls, nextId>>

-----------------------------------------------------------------------------
(* Bounds of the model *)

\* request slots (tasks that may be in flight together)
NumReqs == 2
\* files the drive holds at most (Init and upload)
MaxFiles == 3
\* longest file body, in bytes, a rewrite may produce
MaxLen == 6

-----------------------------------------------------------------------------
(* Program constants *)

\* /^[\w-]{20,}$/ : the shortest string taken for an opaque id
MinIdLen == 20
\* resolveFileId: pageSize of the name lookup
LookupPageSize == 5
\* list-resources: pageSize
ListPageSize == 10
\* search: pageSize
SearchPageSize == 10

-----------------------------------------------------------------------------
(* Characters and strings *)

NL == "\n"
QUOTE == "'"
BACKSLASH == "\\"
\* U+FFFD, what the UTF-8 decoder writes for a byte it cannot decode
REPLACEMENT == "uFFFD"
\* a byte that is never valid in UTF-8
BadByte == "xFF"
\* the UTF-8 encoding of U+FFFD
ReplacementBytes == <<"xEF", "xBF", "xBD">>

Letters == {"a","b","c","d","e","f","g","h","i","j","k","l","m","n","o","p","q",
            "r","s","t","u","v","w","x","y","z",
            "A","B","C","D","E","F","G","H","I","J","K","L","M","N","O","P","Q",
            "R","S","T","U","V","W","X","Y","Z"}
Digits == {"0","1","2","3","4","5","6","7","8","9"}

\* \w of a JavaScript regular expression
IsWordChar(c) == c \in Letters \cup Digits \cup {"_"}

RECURSIVE Rep(_, _)
Rep(c, n) == IF n <= 0 THEN <<>> ELSE <<c>> \o Rep(c, n - 1)

Min(a, b) == IF a < b THEN a ELSE b

Take(s, n) == SubSeq(s, 1, Min(n, Len(s)))
Drop(s, n) == SubSeq(s, n + 1, Len(s))

StartsWith(s, p) == Len(p) <= Len(s) /\ SubSeq(s, 1, Len(p)) = p

\* String.prototype.indexOf, 1-based; 0 when p does not occur in s
IndexOf(s, p) ==
    LET hits == {i \in 1..(Len(s) - Len(p) + 1) : SubSeq(s, i, i + Len(p) - 1) = p}
    IN  IF hits = {} THEN 0 ELSE CHOOSE i \in hits : \A j \in hits : i <= j

\* String.prototype.includes
Includes(s, p) == IndexOf(s, p) # 0

\* a replace that finds nothing to replace
ReplaceNothing(s, p, r) == s

\* String.prototype.replace(p, r) with a string pattern: the first occurrence only
ReplaceFirst(s, p, r) ==
    LET i == IndexOf(s, p)
    IN  IF i = 0 THEN s ELSE SubSeq(s, 1, i - 1) \o r \o Drop(s, i + Len(p) - 1)

-----------------------------------------------------------------------------
(* String literals of the source, as character sequences *)

UriPrefix == <<"g","d","r","i","v","e",":","/","/","/">>
NameQueryPrefix == <<"n","a","m","e"," ","="," ","'">>
FullTextQueryPrefix == <<"f","u","l","l","T","e","x","t"," ","c","o","n","t","a","i","n","s"," ","'">>
NativePrefix == <<"a","p","p","l","i","c","a","t","i","o","n","/","v","n","d",".","g","o","o","g","l","e","-","a","p","p","s">>
MimeDocument == NativePrefix \o <<".","d","o","c","u","m","e","n","t">>
MimeSpreadsheet == NativePrefix \o <<".","s","p","r","e","a","d","s","h","e","e","t">>
MimePresentation == NativePrefix \o <<".","p","r","e","s","e","n","t","a","t","i","o","n">>
MimeDrawing == NativePrefix \o <<".","d","r","a","w","i","n","g">>
MimeMarkdown == <<"t","e","x","t","/","m","a","r","k","d","o","w","n">>
MimeCsv == <<"t","e","x","t","/","c","s","v">>
MimePlain == <<"t","e","x","t","/","p","l","a","i","n">>
MimePng == <<"i","m","a","g","e","/","p","n","g">>
MimeJson == <<"a","p","p","l","i","c","a","t","i","o","n","/","j","s","o","n">>
MimeOctet == <<"a","p","p","l","i","c","a","t","i","o","n","/","o","c","t","e","t","-","s","t","r","e","a","m">>
TextPrefix == <<"t","e","x","t","/">>

-----------------------------------------------------------------------------
(* Bytes and text *)

\* Buffer.from(bytes).toString("utf-8"): a byte that is not part of a valid
\* sequence decodes to U+FFFD.  The only multi-byte sequence of the model is EF BF BD.
RECURSIVE Utf8Decode(_)
Utf8Decode(b) ==
    IF b = <<>> THEN <<>>
    ELSE IF StartsWith(b, ReplacementBytes)
         THEN <<REPLACEMENT>> \o Utf8Decode(Drop(b, 3))
    ELSE IF Head(b) \in {BadByte, "xEF", "xBF", "xBD"}
         THEN <<REPLACEMENT>> \o Utf8Decode(Tail(b))
    ELSE <<Head(b)>> \o Utf8Decode(Tail(b))

\* Buffer.from(string): the UTF-8 encoding of a string
RECURSIVE Utf8Encode(_)
Utf8Encode(s) ==
    IF s = <<>> THEN <<>>
    ELSE (IF Head(s) = REPLACEMENT THEN ReplacementBytes ELSE <<Head(s)>>)
         \o Utf8Encode(Tail(s))

-----------------------------------------------------------------------------
(* resolveFileId: the shape test and the lookup query *)

\* the shape test with its length bound off by one: {21,}
IsIdShapedOffByOne(s) ==
    /\ Len(s) > MinIdLen
    /\ \A i \in 1..Len(s) : IsWordChar(s[i]) \/ s[i] = "-"

\* /^[\w-]{20,}$/.test(nameOrId)
IsIdShaped(s) ==
    /\ Len(s) >= MinIdLen
    /\ \A i \in 1..Len(s) : IsWordChar(s[i]) \/ s[i] = "-"

\* `name = '${nameOrId}'` : the name is interpolated as it is
NameQuery(nameOrId) == NameQueryPrefix \o nameOrId \o <<QUOTE>>

\* String.prototype.replace(/c/g, r) for a one-character pattern
RECURSIVE ReplaceChar(_, _, _)
ReplaceChar(s, c, r) ==
    IF s = <<>> THEN <<>>
    ELSE (IF Head(s) = c THEN r ELSE <<Head(s)>>) \o ReplaceChar(Tail(s), c, r)

\* query.replace(/\\/g, "\\\\").replace(/'/g, "\\'")
EscapeQuery(query) ==
    ReplaceChar(ReplaceChar(query, BACKSLASH, <<BACKSLASH, BACKSLASH>>),
                QUOTE, <<BACKSLASH, QUOTE>>)

\* `fullText contains '${escapedQuery}'`
SearchQuery(query) == FullTextQueryPrefix \o EscapeQuery(query) \o <<QUOTE>>

-----------------------------------------------------------------------------
(* delete_from_file_content: new RegExp(targetText, "g") *)

\* the characters a regular expression does not read as themselves
MetaChars == {".", "*", "+", "?", "(", ")", "[", "]", "{", "}", "^", "$", "|", BACKSLASH}

\* the patterns this model evaluates: literal characters and "."
\* (the other metacharacters are kept out of the inputs)
PatternInScope(p) == \A i \in 1..Len(p) : p[i] \in MetaChars => p[i] = "."

\* one pattern character against one text character; "." matches all but a line end
AtomMatches(pc, c) == IF pc = "." THEN c # NL ELSE pc = c

\* the pattern matches s at its start
MatchesAtStart(s, p) ==
    /\ Len(p) <= Len(s)
    /\ \A k \in 1..Len(p) : AtomMatches(p[k], s[k])

\* the replace without the "g" flag: the first match only
RegexRemoveFirst(s, p) ==
    LET hits == {i \in 1..Len(s) : MatchesAtStart(Drop(s, i - 1), p)}
        first == CHOOSE i \in hits : \A j \in hits : i <= j
    IN  IF p = <<>> \/ hits = {} THEN s
        ELSE SubSeq(s, 1, first - 1) \o Drop(s, first + Len(p) - 1)

\* currentContent.replace(new RegExp(targetText, "g"), ""): one scan from the
\* left, each match removed, the scan resuming after the match
RECURSIVE RegexRemoveAll(_, _)
RegexRemoveAll(s, p) ==
    IF p = <<>> \/ s = <<>> THEN s
    ELSE IF MatchesAtStart(s, p) THEN RegexRemoveAll(Drop(s, Len(p)), p)
    ELSE <<Head(s)>> \o RegexRemoveAll(Tail(s), p)

\* the concatenation without its line end
AppendedContentNoNewline(currentContent, appendText) == currentContent \o appendText

\* the concatenation with its operands swapped
AppendedContentSwapped(currentContent, appendText) == appendText \o <<NL>> \o currentContent

\* currentContent + "\n" + args.appendText
AppendedContent(currentContent, appendText) == currentContent \o <<NL>> \o appendText

-----------------------------------------------------------------------------
(* The remote drive: what drive.files.* answers.  A file is                 *)
(* [id, name, mimeType, content]; drive lists the files in creation order.  *)

\* the id the provider gives its n-th file: opaque, never given twice
IdOf(n) == <<"f", "i", "l", "e", "-">> \o Rep("0", 15 - n) \o Rep("1", n)

OrKeyword == <<" ", "o", "r", " ">>

\* a quoted string of a query, read from after its opening quote:
\* a backslash takes the next character as it is, a quote ends the string
RECURSIVE ParseLiteral(_, _)
ParseLiteral(s, acc) ==
    IF s = <<>> THEN [ok |-> FALSE, value |-> <<>>, rest |-> <<>>]
    ELSE IF Head(s) = QUOTE THEN [ok |-> TRUE, value |-> acc, rest |-> Tail(s)]
    ELSE IF Head(s) = BACKSLASH
         THEN IF Len(s) < 2 THEN [ok |-> FALSE, value |-> <<>>, rest |-> <<>>]
              ELSE ParseLiteral(Drop(s, 2), Append(acc, s[2]))
    ELSE ParseLiteral(Tail(s), Append(acc, Head(s)))

\* the q parameter of files.list: terms `name = '..'` and `fullText contains '..'`
\* joined by " or "; anything else is rejected by the provider
RECURSIVE ParseQuery(_)
ParseQuery(q) ==
    LET bad == [ok |-> FALSE, terms |-> <<>>]
        field == IF StartsWith(q, NameQueryPrefix) THEN "name"
                 ELSE IF StartsWith(q, FullTextQueryPrefix) THEN "fullText"
                 ELSE "none"
        skip == IF field = "name" THEN Len(NameQueryPrefix) ELSE Len(FullTextQueryPrefix)
        lit == ParseLiteral(Drop(q, skip), <<>>)
        term == [field |-> field, value |-> lit.value]
    IN  IF field = "none" THEN bad
        ELSE IF ~lit.ok THEN bad
        ELSE IF lit.rest = <<>> THEN [ok |-> TRUE, terms |-> <<term>>]
        ELSE IF StartsWith(lit.rest, OrKeyword)
             THEN LET more == ParseQuery(Drop(lit.rest, Len(OrKeyword)))
                  IN  IF more.ok THEN [ok |-> TRUE, terms |-> <<term>> \o more.terms]
                      ELSE bad
        ELSE bad

TermMatches(f, term) ==
    IF term.field = "name" THEN f.name = term.value
    ELSE Includes(f.name, term.value) \/ Includes(Utf8Decode(f.content), term.value)

FileMatches(f, terms) == \E i \in 1..Len(terms) : TermMatches(f, terms[i])

\* drive.files.list({q, pageSize}): the first page of the files that match
RemoteList(q, pageSize) ==
    LET parsed == ParseQuery(q)
        Hit(f) == FileMatches(f, parsed.terms)
    IN  [ok |-> parsed.ok,
         files |-> IF parsed.ok THEN Take(SelectSeq(drive, Hit), pageSize) ELSE <<>>]

\* page tokens are the provider's: opaque to the server
NoToken == <<>>
TokenFor(offset) == <<"p", "g">> \o Rep("+", offset)
TokenOffset(token) ==
    IF \E k \in 1..Len(drive) : TokenFor(k) = token
    THEN CHOOSE k \in 1..Len(drive) : TokenFor(k) = token
    ELSE -1

\* drive.files.list({pageSize, pageToken}): one page and the token of the next
RemoteListPage(pageToken, pageSize) ==
    LET offset == IF pageToken = NoToken THEN 0 ELSE TokenOffset(pageToken)
    IN  [ok |-> offset >= 0,
         files |-> IF offset >= 0 THEN Take(Drop(drive, offset), pageSize) ELSE <<>>,
         nextPageToken |-> IF offset >= 0 /\ offset + pageSize < Len(drive)
                           THEN TokenFor(offset + pageSize) ELSE NoToken]

\* the place of the file with this id in drive; 0 when there is none
FindFile(fileId) ==
    IF \E i \in 1..Len(drive) : drive[i].id = fileId
    THEN CHOOSE i \in 1..Len(drive) : drive[i].id = fileId
    ELSE 0

RemoveAt(s, i) == SubSeq(s, 1, i - 1) \o SubSeq(s, i + 1, Len(s))

-----------------------------------------------------------------------------
(* Content types *)

EndsWith(s, p) == Len(p) <= Len(s) /\ SubSeq(s, Len(s) - Len(p) + 1, Len(s)) = p

\* lookup(filename) || "application/octet-stream", for the extensions of the model
guessMimeType(filename) ==
    IF EndsWith(filename, <<".", "t", "x", "t">>) THEN MimePlain
    ELSE IF EndsWith(filename, <<".", "j", "s", "o", "n">>) THEN MimeJson
    ELSE IF EndsWith(filename, <<".", "p", "n", "g">>) THEN MimePng
    ELSE MimeOctet

\* mimeType.startsWith("application/vnd.google-apps")
IsNative(mimeType) == StartsWith(mimeType, NativePrefix)

\* the switch without its drawing case
ExportMimeTypeNoDrawing(mimeType) ==
    IF mimeType = MimeDocument THEN MimeMarkdown
    ELSE IF mimeType = MimeSpreadsheet THEN MimeCsv
    ELSE IF mimeType = MimePresentation THEN MimePlain
    ELSE MimePlain

\* the switch over the provider-native types
ExportMimeType(mimeType) ==
    IF mimeType = MimeDocument THEN MimeMarkdown
    ELSE IF mimeType = MimeSpreadsheet THEN MimeCsv
    ELSE IF mimeType = MimePresentation THEN MimePlain
    ELSE IF mimeType = MimeDrawing THEN MimePng
    ELSE MimePlain

\* the test without its application/json half
IsTextLikeNoJson(mimeType) == StartsWith(mimeType, TextPrefix)

\* mimeType.startsWith("text/") || mimeType === "application/json"
IsTextLike(mimeType) == StartsWith(mimeType, TextPrefix) \/ mimeType = MimeJson

\* Buffer.toString("base64"), kept symbolic: every byte is carried, tagged
Base64(bytes) == [i \in 1..Len(bytes) |-> "b64." \o bytes[i]]

-----------------------------------------------------------------------------
(* Requests.  A request is one task; its pc names the remote call it is     *)
(* suspended at.                                                           *)

ReqIds == 1..NumReqs

ToolNames == {"search", "upload_file_with_content", "update_file_content",
              "delete_file", "read_file_content", "append_file_content",
              "delete_from_file_content"}

ResolvingTools == {"update_file_content", "delete_file", "read_file_content",
                   "append_file_content", "delete_from_file_content"}

IdleReq ==
    [method |-> "none", tool |-> "none", arg |-> <<>>, text |-> <<>>, cursor |-> NoToken,
     pc |-> "idle", input |-> <<>>, fileId |-> <<>>, cur |-> <<>>, body |-> <<>>,
     mime |-> <<>>, result |-> "none", kind |-> "none", payload |-> <<>>,
     nextCursor |-> NoToken]

\* the handler returns, or throws: the request is over
Finish(req, result, kind, payload) ==
    [req EXCEPT !.pc = "done", !.result = result, !.kind = kind, !.payload = payload]

\* a handler that catches the failure and makes the call again
OnRemoteFailureRetry(req) == req

\* a rejected promise of a remote call is not caught: it ends the handler
OnRemoteFailure(req) == Finish(req, "RemoteFailure", "none", <<>>)

\* a chain that compares names without regard to case
HandlerBranchAnyCase(name) ==
    IF name \in ToolNames THEN name ELSE IF name = "Search" THEN "search" ELSE "none"

\* the if / else-if chain over request.params.name
HandlerBranch(name) == IF name \in ToolNames THEN name ELSE "none"

\* the remote call a handler makes once it holds the file id
\* a read_file_content that goes on to write
NextCallReadWrites(req) ==
    IF req.method = "resources/read" THEN "meta"
    ELSE IF req.tool = "update_file_content" THEN "update"
    ELSE IF req.tool = "delete_file" THEN "delete"
    ELSE IF req.tool = "read_file_content" THEN "update"
    ELSE "get"

NextCall(req) ==
    IF req.method = "resources/read" THEN "meta"
    ELSE IF req.tool = "update_file_content" THEN "update"
    ELSE IF req.tool = "delete_file" THEN "delete"
    ELSE "get"

\* resolveFileId returned id: the handler goes on to its next remote call
Resolved(req, id) ==
    [req EXCEPT !.fileId = id, !.pc = NextCall(req),
                !.body = IF req.tool = "update_file_content"
                         THEN Utf8Encode(req.text) ELSE <<>>]

\* resolveFileId up to its first await
ResolveBegin(req, nameOrId) ==
    LET r1 == [req EXCEPT !.input = nameOrId]
    IN  IF IsIdShaped(nameOrId) THEN Resolved(r1, nameOrId)
        ELSE [r1 EXCEPT !.pc = "lookup"]

\* `• ${file.name} (ID: ${file.id})` for each file of the lookup's answer
Candidates(files) == [i \in 1..Len(files) |-> [name |-> files[i].name, id |-> files[i].id]]

\* a resolution that settles for the first of several files of the name
ResolveOutcomeTakesFirst(req, files) ==
    IF Len(files) = 0 THEN Finish(req, "NotFound", "name", req.input)
    ELSE Resolved(req, files[1].id)

\* resolveFileId after the lookup answered
ResolveOutcome(req, files) ==
    IF Len(files) = 0 THEN Finish(req, "NotFound", "name", req.input)
    ELSE IF Len(files) > 1 THEN Finish(req, "Ambiguous", "candidates", Candidates(files))
    ELSE Resolved(req, files[1].id)

\* a handler from the arrival of its request to its first await
Begin(req) ==
    IF req.method = "tools/list" THEN Finish(req, "ok", "tools", <<>>)
    ELSE IF req.method = "resources/list" THEN [req EXCEPT !.pc = "list"]
    ELSE IF req.method = "resources/read"
         THEN ResolveBegin(req, ReplaceFirst(req.arg, UriPrefix, <<>>))
    ELSE IF HandlerBranch(req.tool) = "search" THEN [req EXCEPT !.pc = "search"]
    ELSE IF HandlerBranch(req.tool) = "upload_file_with_content"
         THEN [req EXCEPT !.pc = "create", !.mime = guessMimeType(req.arg),
                          !.body = Utf8Encode(req.text)]
    ELSE IF HandlerBranch(req.tool) \in ResolvingTools THEN ResolveBegin(req, req.arg)
    ELSE Finish(req, "ToolNotFound", "none", <<>>)

\* the continuation without the includes() test of delete_from_file_content
AfterGetUnchecked(req, bytes) ==
    LET currentContent == Utf8Decode(bytes)
        r1 == [req EXCEPT !.cur = currentContent]
    IN  IF req.tool = "read_file_content" THEN Finish(r1, "ok", "text", currentContent)
        ELSE IF req.tool = "append_file_content"
             THEN [r1 EXCEPT !.pc = "update",
                             !.body = Utf8Encode(AppendedContent(currentContent, req.text))]
        ELSE [r1 EXCEPT !.pc = "update",
                        !.body = Utf8Encode(RegexRemoveAll(currentContent, req.text))]

\* read_file_content, append_file_content, delete_from_file_content once the
\* file's bytes have arrived
AfterGet(req, bytes) ==
    LET currentContent == Utf8Decode(bytes)
        r1 == [req EXCEPT !.cur = currentContent]
    IN  IF req.tool = "read_file_content" THEN Finish(r1, "ok", "text", currentContent)
        ELSE IF req.tool = "append_file_content"
             THEN [r1 EXCEPT !.pc = "update",
                             !.body = Utf8Encode(AppendedContent(currentContent, req.text))]
        ELSE IF ~Includes(currentContent, req.text)
             THEN Finish(r1, "TextNotFound", "name", req.text)
        ELSE [r1 EXCEPT !.pc = "update",
                        !.body = Utf8Encode(RegexRemoveAll(currentContent, req.text))]

\* what the remote answers a call with: a transient failure, a rejection, or success
ErrOf(fail, accepted) == IF fail THEN "transient" ELSE IF accepted THEN "none" ELSE "rejected"

Logged(r, op, fileId, err, body) ==
    Append(calls, [req |-> r, op |-> op, fileId |-> fileId, err |-> err, body |-> body])

InFlight(r) == reqs[r].pc \notin {"idle", "done"}

\* a request arrives: the lowest free slot takes it
Start(r, t) ==
    /\ reqs[r].pc = "idle"
    /\ \A q \in ReqIds : q < r => reqs[q].pc # "idle"
    /\ reqs' = [reqs EXCEPT ![r] =
                   Begin([IdleReq EXCEPT !.method = t.method, !.tool = t.tool, !.arg = t.arg,
                                         !.text = t.text, !.cursor = t.cursor])]
    /\ UNCHANGED <<drive, drive0, calls, nextId>>

\* resolveFileId: drive.files.list({q: `name = '...'`, pageSize: 5})
Lookup(r, fail) ==
    /\ reqs[r].pc = "lookup"
    /\ LET res == RemoteList(NameQuery(reqs[r].input), LookupPageSize)
           err == ErrOf(fail, res.ok)
       IN  /\ calls' = Logged(r, "list", <<>>, err, <<>>)
           /\ reqs' = [reqs EXCEPT ![r] = IF err # "none" THEN OnRemoteFailure(@)
                                          ELSE ResolveOutcome(@, res.files)]
    /\ UNCHANGED <<drive, drive0, nextId>>

\* drive.files.get({fileId, alt: "media"}) of the three content tools
Get(r, fail) ==
    /\ reqs[r].pc = "get"
    /\ LET i == FindFile(reqs[r].fileId)
           err == ErrOf(fail, i # 0)
           next == IF err # "none" THEN OnRemoteFailure(reqs[r])
                   ELSE AfterGet(reqs[r], drive[i].content)
       IN  /\ Len(next.body) <= MaxLen
           /\ calls' = Logged(r, "get", reqs[r].fileId, err, <<>>)
           /\ reqs' = [reqs EXCEPT ![r] = next]
    /\ UNCHANGED <<drive, drive0, nextId>>

\* an update whose failure leaves the part of the body that had been sent
UpdateTorn(r, fail) ==
    /\ reqs[r].pc = "update"
    /\ LET i == FindFile(reqs[r].fileId)
           err == ErrOf(fail, i # 0)
       IN  /\ calls' = Logged(r, "update", reqs[r].fileId, err, reqs[r].body)
           /\ drive' = IF err = "none" THEN [drive EXCEPT ![i].content = reqs[r].body]
                       ELSE IF i # 0 THEN [drive EXCEPT ![i].content = <<>>]
                       ELSE drive
           /\ reqs' = [reqs EXCEPT ![r] = IF err # "none" THEN OnRemoteFailure(@)
                                          ELSE Finish(@, "ok", "id", @.fileId)]
    /\ UNCHANGED <<drive0, nextId>>

\* drive.files.update({fileId, media}): the whole body is replaced
Update(r, fail) ==
    /\ reqs[r].pc = "update"
    /\ LET i == FindFile(reqs[r].fileId)
           err == ErrOf(fail, i # 0)
       IN  /\ calls' = Logged(r, "update", reqs[r].fileId, err, reqs[r].body)
           /\ drive' = IF err = "none" THEN [drive EXCEPT ![i].content = reqs[r].body]
                       ELSE drive
           /\ reqs' = [reqs EXCEPT ![r] = IF err # "none" THEN OnRemoteFailure(@)
                                          ELSE Finish(@, "ok", "id", @.fileId)]
    /\ UNCHANGED <<drive0, nextId>>

\* a delete that takes every file of the target's name with it
DeleteNamesakes(r, fail) ==
    /\ reqs[r].pc = "delete"
    /\ LET i == FindFile(reqs[r].fileId)
           err == ErrOf(fail, i # 0)
       IN  /\ calls' = Logged(r, "delete", reqs[r].fileId, err, <<>>)
           /\ drive' = IF err = "none"
                       THEN SelectSeq(drive, LAMBDA f : f.name # drive[i].name)
                       ELSE drive
           /\ reqs' = [reqs EXCEPT ![r] = IF err # "none" THEN OnRemoteFailure(@)
                                          ELSE Finish(@, "ok", "id", @.fileId)]
    /\ UNCHANGED <<drive0, nextId>>

\* drive.files.delete({fileId})
Delete(r, fail) ==
    /\ reqs[r].pc = "delete"
    /\ LET i == FindFile(reqs[r].fileId)
           err == ErrOf(fail, i # 0)
       IN  /\ calls' = Logged(r, "delete", reqs[r].fileId, err, <<>>)
           /\ drive' = IF err = "none" THEN RemoveAt(drive, i) ELSE drive
           /\ reqs' = [reqs EXCEPT ![r] = IF err # "none" THEN OnRemoteFailure(@)
                                          ELSE Finish(@, "ok", "id", @.fileId)]
    /\ UNCHANGED <<drive0, nextId>>

\* drive.files.create({requestBody: {name, mimeType}, media})
Create(r, fail) ==
    /\ reqs[r].pc = "create"
    /\ nextId <= MaxFiles
    /\ LET err == ErrOf(fail, TRUE)
           file == [id |-> IdOf(nextId), name |-> reqs[r].arg, mimeType |-> reqs[r].mime,
                    content |-> reqs[r].body]
       IN  /\ calls' = Logged(r, "create", <<>>, err, reqs[r].body)
           /\ drive' = IF err = "none" THEN Append(drive, file) ELSE drive
           /\ nextId' = IF err = "none" THEN nextId + 1 ELSE nextId
           /\ reqs' = [reqs EXCEPT ![r] = IF err # "none" THEN OnRemoteFailure(@)
                                          ELSE Finish(@, "ok", "id", file.id)]
    /\ UNCHANGED drive0

\* `${file.name} (${file.mimeType})` for each file found
SearchLines(files) ==
    [i \in 1..Len(files) |-> [name |-> files[i].name, mimeType |-> files[i].mimeType]]

\* search: drive.files.list({q: `fullText contains '...'`, pageSize: 10})
Search(r, fail) ==
    /\ reqs[r].pc = "search"
    /\ LET res == RemoteList(SearchQuery(reqs[r].arg), SearchPageSize)
           err == ErrOf(fail, res.ok)
       IN  /\ calls' = Logged(r, "list", <<>>, err, <<>>)
           /\ reqs' = [reqs EXCEPT ![r] = IF err # "none" THEN OnRemoteFailure(@)
                                          ELSE Finish(@, "ok", "found", SearchLines(res.files))]
    /\ UNCHANGED <<drive, drive0, nextId>>

\* the uris with a scheme of two slashes
ResourcesTwoSlashes(files) ==
    [i \in 1..Len(files) |-> [uri |-> <<"g", "d", "r", "i", "v", "e", ":", "/", "/">> \o files[i].id,
                              mimeType |-> files[i].mimeType, name |-> files[i].name]]

\* uri: `gdrive:///${file.id}`, mimeType, name for each file of the page
Resources(files) ==
    [i \in 1..Len(files) |-> [uri |-> UriPrefix \o files[i].id,
                              mimeType |-> files[i].mimeType, name |-> files[i].name]]

\* a listing that follows the page tokens and returns every file
ListAggregating(r, fail) ==
    /\ reqs[r].pc = "list"
    /\ LET res == RemoteListPage(reqs[r].cursor, ListPageSize)
           err == ErrOf(fail, res.ok)
       IN  /\ calls' = Logged(r, "list", <<>>, err, reqs[r].cursor)
           /\ reqs' = [reqs EXCEPT ![r] =
                          IF err # "none" THEN OnRemoteFailure(@)
                          ELSE Finish(@, "ok", "resources", Resources(drive))]
    /\ UNCHANGED <<drive, drive0, nextId>>

\* list-resources: drive.files.list({pageSize: 10, pageToken})
List(r, fail) ==
    /\ reqs[r].pc = "list"
    /\ LET res == RemoteListPage(reqs[r].cursor, ListPageSize)
           err == ErrOf(fail, res.ok)
       IN  /\ calls' = Logged(r, "list", <<>>, err, reqs[r].cursor)
           /\ reqs' = [reqs EXCEPT ![r] =
                          IF err # "none" THEN OnRemoteFailure(@)
                          ELSE [Finish(@, "ok", "resources", Resources(res.files))
                                  EXCEPT !.nextCursor = res.nextPageToken]]
    /\ UNCHANGED <<drive, drive0, nextId>>

\* read-resource: drive.files.get({fileId}) for the file's mimeType
Meta(r, fail) ==
    /\ reqs[r].pc = "meta"
    /\ LET i == FindFile(reqs[r].fileId)
           err == ErrOf(fail, i # 0)
           mimeType == IF drive[i].mimeType = <<>> THEN MimeOctet ELSE drive[i].mimeType
       IN  /\ calls' = Logged(r, "get", reqs[r].fileId, err, <<>>)
           /\ reqs' = [reqs EXCEPT ![r] =
                          IF err # "none" THEN OnRemoteFailure(@)
                          ELSE [@ EXCEPT !.mime = mimeType,
                                         !.pc = IF IsNative(mimeType) THEN "export" ELSE "media"]]
    /\ UNCHANGED <<drive, drive0, nextId>>

\* read-resource: drive.files.export({fileId, mimeType}) of a provider-native file
Export(r, fail) ==
    /\ reqs[r].pc = "export"
    /\ LET i == FindFile(reqs[r].fileId)
           err == ErrOf(fail, i # 0)
       IN  /\ calls' = Logged(r, "export", reqs[r].fileId, err, ExportMimeType(reqs[r].mime))
           /\ reqs' = [reqs EXCEPT ![r] =
                          IF err # "none" THEN OnRemoteFailure(@)
                          ELSE [Finish(@, "ok", "text", Utf8Decode(drive[i].content))
                                  EXCEPT !.mime = ExportMimeType(reqs[r].mime)]]
    /\ UNCHANGED <<drive, drive0, nextId>>

\* read-resource: drive.files.get({fileId}, arraybuffer) of any other file
Media(r, fail) ==
    /\ reqs[r].pc = "media"
    /\ LET i == FindFile(reqs[r].fileId)
           err == ErrOf(fail, i # 0)
       IN  /\ calls' = Logged(r, "get", reqs[r].fileId, err, <<>>)
           /\ reqs' = [reqs EXCEPT ![r] =
                          IF err # "none" THEN OnRemoteFailure(@)
                          ELSE IF IsTextLike(@.mime)
                               THEN Finish(@, "ok", "text", Utf8Decode(drive[i].content))
                          ELSE Finish(@, "ok", "blob", Base64(drive[i].content))]
    /\ UNCHANGED <<drive, drive0, nextId>>

\* the answer has been handed to the transport: the slot and its calls are dropped
Retire(r) ==
    /\ reqs[r].pc = "done"
    /\ reqs' = [reqs EXCEPT ![r] = IdleReq]
    /\ calls' = SelectSeq(calls, LAMBDA c : c.req # r)
    /\ UNCHANGED <<drive, drive0, nextId>>

-----------------------------------------------------------------------------
(* Inputs *)

NameA == <<"a">>
NameB == <<"b">>
\* a display name with a quote in it
NameQuote == <<"a", QUOTE, "b">>
\* a display name that has the shape of an opaque id
NameLong == Rep("n", MinIdLen)
\* one character short of the shape of an opaque id
NameShort == Rep("n", MinIdLen - 1)
\* a name that closes the quote of the lookup query and adds a term of its own
NameInject == <<"x", QUOTE>> \o OrKeyword \o NameQueryPrefix \o NameA

File(n, name, mimeType, content) ==
    [id |-> IdOf(n), name |-> name, mimeType |-> mimeType, content |-> content]

Call(tool, arg, text) ==
    [method |-> "tools/call", tool |-> tool, arg |-> arg, text |-> text, cursor |-> NoToken]

ReadResource(uri) ==
    [method |-> "resources/read", tool |-> "none", arg |-> uri, text |-> <<>>, cursor |-> NoToken]

ListResources(cursor) ==
    [method |-> "resources/list", tool |-> "none", arg |-> <<>>, text |-> <<>>, cursor |-> cursor]

ListTools ==
    [method |-> "tools/list", tool |-> "none", arg |-> <<>>, text |-> <<>>, cursor |-> NoToken]

NoRequests == [r \in ReqIds |-> IdleReq]

\* a request arrives while no other is being handled or waits to be answered
StartSolo(r, t) ==
    /\ \A q \in ReqIds : reqs[q].pc = "idle"
    /\ Start(r, t)

\* a request arrives while no other is in flight
StartSeq(r, t) ==
    /\ \A q \in ReqIds : ~InFlight(q)
    /\ Start(r, t)

-----------------------------------------------------------------------------
(* SpecResolve: name resolution.  The drive holds up to MaxSameName files   *)
(* named "a" and some files of other names; one request at a time reads a   *)
(* file by name, by id or by uri.                                           *)

\* files of one name the drive may hold
MaxSameName == 6

ResolveArgs == {NameA, NameB, NameQuote, NameLong, NameShort, NameInject,
                IdOf(1), IdOf(MaxSameName + 3), <<>>}

ResolveRequests ==
    {Call("read_file_content", x, <<>>) : x \in ResolveArgs}
    \cup {ReadResource(UriPrefix \o x) : x \in ResolveArgs}
    \cup {ReadResource(x) : x \in {NameA, IdOf(1)}}

ResolveDrives ==
    {[i \in 1..(k + Len(others)) |->
        IF i <= k THEN File(i, NameA, MimePlain, <<"a">>)
        ELSE File(i, others[i - k], MimePlain, <<"b">>)] :
     k \in 0..MaxSameName,
     others \in {<<>>, <<NameQuote>>, <<NameLong, NameQuote>>}}

InitResolve ==
    /\ drive \in ResolveDrives
    /\ drive0 = drive
    /\ reqs = NoRequests
    /\ calls = <<>>
    /\ nextId = Len(drive) + 1

NextResolve ==
    \/ \E r \in ReqIds, t \in ResolveRequests : StartSolo(r, t)
    \/ \E r \in ReqIds, fail \in BOOLEAN : Lookup(r, fail)
    \/ \E r \in ReqIds, fail \in BOOLEAN : Get(r, fail)
    \/ \E r \in ReqIds, fail \in BOOLEAN : Meta(r, fail)
    \/ \E r \in ReqIds, fail \in BOOLEAN : Media(r, fail)
    \/ \E r \in ReqIds : Retire(r)

SpecResolve == InitResolve /\ [][NextResolve]_vars

-----------------------------------------------------------------------------
(* What the properties read off a state *)

\* the remote calls request r has made, in order
CallsOf(r) == SelectSeq(calls, LAMBDA c : c.req = r)

CountOp(cs, op) == Cardinality({i \in 1..Len(cs) : cs[i].op = op})

\* the opaque-id shape, as the specification words it: at least 20 characters,
\* each a word character or a hyphen
OpaqueIdShape(s) ==
    /\ Len(s) >= MinIdLen
    /\ \A i \in 1..Len(s) : s[i] \in Letters \cup Digits \cup {"_", "-"}

\* request r has called resolveFileId and the call is over
ResolveOver(r) ==
    /\ reqs[r].pc \notin {"idle", "lookup"}
    /\ \/ reqs[r].method = "resources/read"
       \/ reqs[r].method = "tools/call" /\ reqs[r].tool \in ResolvingTools

\* the remote files whose name is the string
FilesNamed(name) == {i \in 1..Len(drive) : drive[i].name = name}

\* a uri with the scheme prefix taken off its front
SchemeRemoved(uri) == IF StartsWith(uri, UriPrefix) THEN Drop(uri, Len(UriPrefix)) ELSE uri

-----------------------------------------------------------------------------
(* Claims about name resolution, under SpecResolve *)

\* C2: for every input of the opaque-id shape resolveFileId returns the input
\* unchanged and makes no remote lookup, whatever files exist remotely.
C2_IdShapedInputIsReturnedWithoutLookup ==
    \A r \in ReqIds :
        (ResolveOver(r) /\ OpaqueIdShape(reqs[r].input)) =>
            /\ reqs[r].fileId = reqs[r].input
            /\ CountOp(CallsOf(r), "list") = 0
            /\ reqs[r].result \notin {"NotFound", "Ambiguous"}

\* C2 witness: a request named a file by a display name that has the id shape; a
\* file of that name exists, none has it as id, and the request went straight to
\* its get, which the provider rejected.
C2_Witness ==
    \E r \in ReqIds :
        /\ reqs[r].pc = "done" /\ reqs[r].tool = "read_file_content"
        /\ reqs[r].arg = NameLong /\ reqs[r].fileId = NameLong
        /\ FilesNamed(NameLong) # {} /\ FindFile(NameLong) = 0
        /\ Len(CallsOf(r)) = 1 /\ CallsOf(r)[1].op = "get"

\* C3: for every input that has not the opaque-id shape resolveFileId makes
\* exactly one lookup, and (the lookup not failing in transit) no file of that
\* name gives NotFound, exactly one gives that file's id, two or more give Ambiguous.
C3_OutcomeFollowsTheNumberOfFilesOfThatName ==
    \A r \in ReqIds :
        (/\ ResolveOver(r)
         /\ ~OpaqueIdShape(reqs[r].input)
         /\ \A i \in 1..Len(calls) : calls[i].req = r => calls[i].err # "transient") =>
            /\ CountOp(CallsOf(r), "list") = 1
            /\ Cardinality(FilesNamed(reqs[r].input)) = 0 => reqs[r].result = "NotFound"
            /\ Cardinality(FilesNamed(reqs[r].input)) = 1 =>
                   /\ reqs[r].result \in {"none", "ok"}
                   /\ \A i \in FilesNamed(reqs[r].input) : reqs[r].fileId = drive[i].id
            /\ Cardinality(FilesNamed(reqs[r].input)) >= 2 => reqs[r].result = "Ambiguous"

\* C4: whenever resolveFileId fails Ambiguous, the failure lists the name and the
\* id of every remote file whose name is the input.
C4_AmbiguousListsEveryCandidate ==
    \A r \in ReqIds :
        reqs[r].result = "Ambiguous" =>
            \A i \in FilesNamed(reqs[r].input) :
                \E k \in 1..Len(reqs[r].payload) :
                    reqs[r].payload[k] = [name |-> drive[i].name, id |-> drive[i].id]

\* C9 as claimed: read-resource makes no name lookup, and the file id of its get
\* and export calls is the uri with the scheme prefix removed.
C9_ReadResourceNeverResolves ==
    \A r \in ReqIds :
        reqs[r].method = "resources/read" =>
            \A i \in 1..Len(calls) :
                calls[i].req = r =>
                    /\ calls[i].op # "list"
                    /\ calls[i].fileId = SchemeRemoved(reqs[r].arg)

\* C9 as amended: read-resource passes the uri, its scheme prefix removed, through
\* resolveFileId: when the remainder has the opaque-id shape the handler makes no
\* lookup and its get and export calls carry exactly the remainder; otherwise its
\* first remote call is the one name lookup it makes.
C9_ReadResourceResolvesTheRemainder ==
    \A r \in ReqIds :
        reqs[r].method = "resources/read" =>
            LET cs == CallsOf(r)
                rest == SchemeRemoved(reqs[r].arg)
            IN  IF OpaqueIdShape(rest)
                THEN \A i \in 1..Len(cs) : cs[i].op # "list" /\ cs[i].fileId = rest
                ELSE /\ reqs[r].pc \notin {"idle", "lookup"} =>
                            Len(cs) >= 1 /\ cs[1].op = "list"
                     /\ CountOp(cs, "list") <= 1
                     /\ reqs[r].pc = "lookup" => cs = <<>>

\* C9 witness: a read-resource of a uri that carries a display name has looked the
\* name up and then read the file of that name, whose id is not in the uri.
C9_Witness ==
    \E r \in ReqIds :
        /\ reqs[r].method = "resources/read" /\ reqs[r].arg = UriPrefix \o NameA
        /\ reqs[r].pc = "done" /\ reqs[r].result = "ok"
        /\ Len(CallsOf(r)) = 3 /\ CallsOf(r)[1].op = "list"
        /\ CallsOf(r)[3].fileId = IdOf(1)

-----------------------------------------------------------------------------
(* SpecEdit: delete_from_file_content, one request at a time, on a file of  *)
(* each of several bodies.                                                  *)

EditContents ==
    {<<"a", "a", "b", "b">>, <<"a", "b", "a", "b">>, <<"a", "a", "a">>,
     <<"a", ".", "b">>, <<"a", "b", NL, "b">>, <<"a", BadByte, "b">>, <<>>}

EditTargets ==
    {t \in {<<"a", "b">>, <<"a", "a">>, <<"b">>, <<"c">>, <<".">>, <<"a", ".", "b">>,
            <<REPLACEMENT>>, <<>>} : PatternInScope(t)}

EditRequests ==
    {Call("delete_from_file_content", x, t) : x \in {NameA, IdOf(1)}, t \in EditTargets}

InitEdit ==
    /\ drive \in {<<File(1, NameA, MimePlain, c)>> : c \in EditContents}
    /\ drive0 = drive
    /\ reqs = NoRequests
    /\ calls = <<>>
    /\ nextId = Len(drive) + 1

NextEdit ==
    \/ \E r \in ReqIds, t \in EditRequests : StartSolo(r, t)
    \/ \E r \in ReqIds, fail \in BOOLEAN : Lookup(r, fail)
    \/ \E r \in ReqIds, fail \in BOOLEAN : Get(r, fail)
    \/ \E r \in ReqIds, fail \in BOOLEAN : Update(r, fail)
    \/ \E r \in ReqIds : Retire(r)

SpecEdit == InitEdit /\ [][NextEdit]_vars

-----------------------------------------------------------------------------
(* Claims about delete_from_file_content, under SpecEdit *)

\* the text t occurs in s as a substring
Occurs(s, t) == \E i \in 1..(Len(s) - Len(t) + 1) : SubSeq(s, i, i + Len(t) - 1) = t

\* the occurrences of t in s met one after the other from the left, none
\* overlapping the one before
RECURSIVE CountOccurrences(_, _)
CountOccurrences(s, t) ==
    IF t = <<>> \/ IndexOf(s, t) = 0 THEN 0
    ELSE 1 + CountOccurrences(Drop(s, IndexOf(s, t) + Len(t) - 1), t)

\* s with those occurrences cut out
RECURSIVE CutOccurrences(_, _)
CutOccurrences(s, t) ==
    IF t = <<>> \/ IndexOf(s, t) = 0 THEN s
    ELSE SubSeq(s, 1, IndexOf(s, t) - 1)
         \o CutOccurrences(Drop(s, IndexOf(s, t) + Len(t) - 1), t)

NoMetaChars(t) == \A i \in 1..Len(t) : t[i] \notin MetaChars

\* request r is a delete_from_file_content that has read its file
HasRead(r) ==
    /\ reqs[r].tool = "delete_from_file_content"
    /\ \E i \in 1..Len(calls) :
           calls[i].req = r /\ calls[i].op = "get" /\ calls[i].err = "none"

\* the text of the file request r works on, as it is on the drive now
RemoteText(r) == Utf8Decode(drive[FindFile(reqs[r].fileId)].content)

\* C5: delete_from_file_content on a file whose content does not contain
\* targetText fails TextNotFound, makes no update call, and leaves the content
\* of the file as it was read.
C5_AbsentTargetFailsWithoutWrite ==
    \A r \in ReqIds :
        (HasRead(r) /\ ~Occurs(reqs[r].cur, reqs[r].text)) =>
            /\ reqs[r].pc = "done" /\ reqs[r].result = "TextNotFound"
            /\ CountOp(CallsOf(r), "update") = 0
            /\ RemoteText(r) = reqs[r].cur

\* C5 witness: a request by name for a text the file has not: the lookup, the
\* get, and the failure.
C5_Witness ==
    \E r \in ReqIds :
        /\ reqs[r].tool = "delete_from_file_content" /\ reqs[r].result = "TextNotFound"
        /\ reqs[r].text = <<"c">> /\ reqs[r].cur = <<"a", "a", "b", "b">>
        /\ Len(CallsOf(r)) = 2 /\ CallsOf(r)[2].op = "get"

\* C6 as claimed: delete_from_file_content of a targetText without pattern
\* metacharacters that the content holds N >= 1 times succeeds (if no call fails
\* in transit) and leaves content without any occurrence of targetText, N times
\* the length of targetText shorter.
C6_NoOccurrenceIsLeft ==
    \A r \in ReqIds :
        (/\ HasRead(r) /\ reqs[r].pc = "done" /\ reqs[r].result # "RemoteFailure"
         /\ NoMetaChars(reqs[r].text) /\ reqs[r].text # <<>>
         /\ Occurs(reqs[r].cur, reqs[r].text)) =>
            /\ reqs[r].result = "ok"
            /\ ~Occurs(RemoteText(r), reqs[r].text)
            /\ Len(RemoteText(r)) = Len(reqs[r].cur)
                   - CountOccurrences(reqs[r].cur, reqs[r].text) * Len(reqs[r].text)

\* C6 as amended: delete_from_file_content of a targetText without pattern
\* metacharacters that the content holds succeeds (if no call fails in transit)
\* and leaves the content with the N >= 1 occurrences cut out that one scan from
\* the left meets, none overlapping the one before: N times the length of
\* targetText shorter.  What is left may hold targetText again where a cut joins
\* the text around it.
C6_OneScanCutsTheOccurrences ==
    \A r \in ReqIds :
        (/\ HasRead(r) /\ reqs[r].pc = "done" /\ reqs[r].result # "RemoteFailure"
         /\ NoMetaChars(reqs[r].text)
         /\ Occurs(reqs[r].cur, reqs[r].text)) =>
            /\ reqs[r].result = "ok"
            /\ RemoteText(r) = CutOccurrences(reqs[r].cur, reqs[r].text)
            /\ Len(RemoteText(r)) = Len(reqs[r].cur)
                   - CountOccurrences(reqs[r].cur, reqs[r].text) * Len(reqs[r].text)
            /\ reqs[r].text # <<>> => CountOccurrences(reqs[r].cur, reqs[r].text) >= 1

\* C6 witness: "ab" deleted from "abab" has left the file empty, two occurrences cut.
C6_Witness ==
    \E r \in ReqIds :
        /\ reqs[r].tool = "delete_from_file_content" /\ reqs[r].result = "ok"
        /\ reqs[r].text = <<"a", "b">> /\ reqs[r].cur = <<"a", "b", "a", "b">>
        /\ drive[1].content = <<>>

-----------------------------------------------------------------------------
(* SpecAppend: append_file_content requests to one file that may be in      *)
(* flight together; an update may fail in transit.                          *)
(* SpecSeq: appends to two files, each arriving after the one before is     *)
(* over; any call may fail in transit.                                      *)

AppendContents == {<<"a">>, <<>>, <<BadByte>>}

AppendRequests ==
    {Call("append_file_content", x, t) :
        x \in {NameA, IdOf(1), NameB}, t \in {<<"b">>, <<"c">>}}

\* the requests that race: appends to one file, named by its name or by its id
RacingRequests ==
    {Call("append_file_content", x, t) : x \in {NameA, IdOf(1)}, t \in {<<"b">>, <<"c">>}}

InitAppend ==
    /\ drive \in {<<File(1, NameA, MimePlain, c), File(2, NameB, MimePlain, <<"b">>)>> :
                     c \in AppendContents}
    /\ drive0 = drive
    /\ reqs = NoRequests
    /\ calls = <<>>
    /\ nextId = Len(drive) + 1

NextAppend ==
    \/ \E r \in ReqIds, t \in RacingRequests : Start(r, t)
    \/ \E r \in ReqIds : Lookup(r, FALSE)
    \/ \E r \in ReqIds : Get(r, FALSE)
    \/ \E r \in ReqIds, fail \in BOOLEAN : Update(r, fail)

SpecAppend == InitAppend /\ [][NextAppend]_vars

NextSeq ==
    \/ \E r \in ReqIds, t \in AppendRequests : StartSeq(r, t)
    \/ \E r \in ReqIds, fail \in BOOLEAN : Lookup(r, fail)
    \/ \E r \in ReqIds, fail \in BOOLEAN : Get(r, fail)
    \/ \E r \in ReqIds, fail \in BOOLEAN : Update(r, fail)

SpecSeq == InitAppend /\ [][NextSeq]_vars

-----------------------------------------------------------------------------
(* Claims about append_file_content *)

\* request r is an append_file_content that reported success
Appended(r) ==
    reqs[r].tool = "append_file_content" /\ reqs[r].pc = "done" /\ reqs[r].result = "ok"

\* the request whose update of the file is the last one the drive has taken; 0 if none
LastWriter(fileId) ==
    LET ups == {i \in 1..Len(calls) :
                   calls[i].op = "update" /\ calls[i].err = "none" /\ calls[i].fileId = fileId}
    IN  IF ups = {} THEN 0
        ELSE calls[CHOOSE i \in ups : \A j \in ups : j <= i].req

\* C1 (SpecAppend): the handler takes no lock and orders nothing: when two
\* append_file_content requests have read the same body of the same file and
\* both reported success, the file holds the body the later update wrote, the
\* read body with the later text alone: the text the earlier one appended is lost.
C1_SecondAppendOverwritesTheFirst ==
    \A r1, r2 \in ReqIds :
        (/\ r1 # r2 /\ Appended(r1) /\ Appended(r2)
         /\ reqs[r1].fileId = reqs[r2].fileId /\ reqs[r1].cur = reqs[r2].cur
         /\ LastWriter(reqs[r2].fileId) = r2) =>
            /\ drive[FindFile(reqs[r2].fileId)].content = reqs[r2].body
            /\ RemoteText(r2) = reqs[r2].cur \o <<NL>> \o reqs[r2].text
            /\ Len(RemoteText(r2)) < Len(reqs[r1].cur) + Len(reqs[r1].text)
                                      + Len(reqs[r2].text) + 2

\* C1 witness: two requests read "a", one appended "b", then the other "c"; both
\* reported success and the file holds "a\nc", without the "b".
C1_Witness ==
    \E r1, r2 \in ReqIds :
        /\ r1 # r2 /\ Appended(r1) /\ Appended(r2)
        /\ reqs[r1].fileId = IdOf(1) /\ reqs[r2].fileId = IdOf(1)
        /\ reqs[r1].cur = <<"a">> /\ reqs[r2].cur = <<"a">>
        /\ reqs[r1].text = <<"b">> /\ reqs[r2].text = <<"c">>
        /\ LastWriter(IdOf(1)) = r2
        /\ drive[1].content = <<"a", NL, "c">>
        /\ ~Occurs(Utf8Decode(drive[1].content), <<"b">>)

\* the texts the successful updates of a file appended, each after a line end,
\* in the order of the updates
RECURSIVE AppendedSoFar(_, _)
AppendedSoFar(cs, fileId) ==
    IF cs = <<>> THEN <<>>
    ELSE (IF Head(cs).op = "update" /\ Head(cs).err = "none" /\ Head(cs).fileId = fileId
          THEN <<NL>> \o reqs[Head(cs).req].text ELSE <<>>)
         \o AppendedSoFar(Tail(cs), fileId)

\* C7 (SpecSeq): a successful append_file_content of t to a file that reads c
\* leaves it reading c + "\n" + t; after appends that do not overlap, with no
\* other writer, a file reads its first text followed by every appended text in
\* order, each after a line end: none is lost.
C7_SequentialAppendsAreAllKept ==
    /\ \A i \in 1..Len(drive) :
           Utf8Decode(drive[i].content)
               = Utf8Decode(drive0[i].content) \o AppendedSoFar(calls, drive[i].id)
    /\ \A r \in ReqIds :
           Appended(r) =>
               /\ Utf8Decode(reqs[r].body) = reqs[r].cur \o <<NL>> \o reqs[r].text
               /\ \E i \in 1..Len(calls) :
                      /\ calls[i].req = r /\ calls[i].op = "update"
                      /\ calls[i].body = reqs[r].body /\ calls[i].fileId = reqs[r].fileId

\* C7 witness: "b" and then "c" were appended to the file that read "a"; it reads
\* "a\nb\nc".
C7_Witness ==
    /\ \A r \in ReqIds : r <= 2 => Appended(r)
    /\ reqs[1].text = <<"b">> /\ reqs[2].text = <<"c">>
    /\ drive0[1].content = <<"a">>
    /\ drive[1].content = <<"a", NL, "b", NL, "c">>

-----------------------------------------------------------------------------
(* Spec: every handler.  The drive starts with a text file and a provider-   *)
(* native document; requests of every kind, and of names that are no tool,  *)
(* arrive one after the other; any remote call may fail.                    *)

NamePng == <<"p", ".", "p", "n", "g">>

\* a page token the provider never gave
BadToken == <<"?">>

NoTools == {"", "bogus", "Search", "delete"}

Requests ==
    {ListTools, ListResources(NoToken), ListResources(BadToken),
     ReadResource(UriPrefix \o IdOf(1)), ReadResource(UriPrefix \o IdOf(2)),
     ReadResource(UriPrefix \o IdOf(3)),
     Call("search", <<"a">>, <<>>), Call("search", NameQuote, <<>>),
     Call("upload_file_with_content", NamePng, <<"a">>),
     Call("upload_file_with_content", NameA, <<"c">>),
     Call("update_file_content", IdOf(1), <<"c">>),
     Call("update_file_content", NameB, <<>>),
     Call("delete_file", NameA, <<>>), Call("delete_file", IdOf(2), <<>>),
     Call("read_file_content", NameA, <<>>), Call("read_file_content", IdOf(3), <<>>),
     Call("append_file_content", NameA, <<"b">>),
     Call("append_file_content", IdOf(2), <<"c">>),
     Call("delete_from_file_content", IdOf(1), <<"b">>),
     Call("delete_from_file_content", NameB, <<"d">>)}
    \cup {Call(n, IdOf(1), <<"b">>) : n \in NoTools}

Init ==
    /\ drive = <<File(1, NameA, MimePlain, <<"a", "b">>),
                 File(2, NameB, MimeDocument, <<"d">>)>>
    /\ drive0 = drive
    /\ reqs = NoRequests
    /\ calls = <<>>
    /\ nextId = Len(drive) + 1

Next ==
    \/ \E r \in ReqIds, t \in Requests : StartSolo(r, t)
    \/ \E r \in ReqIds, fail \in BOOLEAN : Lookup(r, fail)
    \/ \E r \in ReqIds, fail \in BOOLEAN : Get(r, fail)
    \/ \E r \in ReqIds, fail \in BOOLEAN : Update(r, fail)
    \/ \E r \in ReqIds, fail \in BOOLEAN : Delete(r, fail)
    \/ \E r \in ReqIds, fail \in BOOLEAN : Create(r, fail)
    \/ \E r \in ReqIds, fail \in BOOLEAN : Search(r, fail)
    \/ \E r \in ReqIds, fail \in BOOLEAN : List(r, fail)
    \/ \E r \in ReqIds, fail \in BOOLEAN : Meta(r, fail)
    \/ \E r \in ReqIds, fail \in BOOLEAN : Export(r, fail)
    \/ \E r \in ReqIds, fail \in BOOLEAN : Media(r, fail)
    \/ \E r \in ReqIds : Retire(r)

Spec == Init /\ [][Next]_vars

-----------------------------------------------------------------------------
(* Claims about every handler, under Spec *)

\* the seven tools the specification registers
RegisteredTools == {"search", "upload_file_with_content", "update_file_content",
                    "delete_file", "read_file_content", "append_file_content",
                    "delete_from_file_content"}

\* C8: a call-tool request whose name is none of the seven registered tools fails
\* ToolNotFound and makes no remote call of any kind, whatever its arguments.
C8_UnknownToolFailsWithoutRemoteCall ==
    \A r \in ReqIds :
        (/\ reqs[r].method = "tools/call"
         /\ reqs[r].tool \notin RegisteredTools) =>
            /\ reqs[r].pc = "done" /\ reqs[r].result = "ToolNotFound"
            /\ CallsOf(r) = <<>>

\* C8 witness: a request for the tool "Search", with arguments that would name a
\* file, is over with ToolNotFound and the drive was never called.
C8_Witness ==
    \E r \in ReqIds :
        /\ reqs[r].method = "tools/call" /\ reqs[r].tool = "Search"
        /\ reqs[r].arg = IdOf(1)
        /\ reqs[r].result = "ToolNotFound" /\ calls = <<>>

\* C10: a remote call that fails ends its request with an error: the failed call
\* is the last call the request makes, and the request reports no success.
C10_FailedCallEndsTheRequest ==
    \A i \in 1..Len(calls) :
        calls[i].err # "none" =>
            /\ \A j \in (i + 1)..Len(calls) : calls[j].req # calls[i].req
            /\ reqs[calls[i].req].pc = "done"
            /\ reqs[calls[i].req].result = "RemoteFailure"
            /\ reqs[calls[i].req].kind = "none"

\* C10 witness: an append by name looked the name up and read the file, its update
\* failed in transit, and the request is over with the file as it was.
C10_Witness ==
    \E r \in ReqIds :
        /\ reqs[r].tool = "append_file_content" /\ reqs[r].arg = NameA
        /\ Len(CallsOf(r)) = 3
        /\ CallsOf(r)[1].err = "none" /\ CallsOf(r)[2].err = "none"
        /\ CallsOf(r)[3].op = "update" /\ CallsOf(r)[3].err = "transient"
        /\ reqs[r].result = "RemoteFailure"
        /\ drive = drive0

\* the two tools that read a file and write it back
RewritingTools == {"append_file_content", "delete_from_file_content"}

\* the step in which the rewrite call of r comes back failed
RewriteFails(r) ==
    /\ reqs[r].tool \in RewritingTools
    /\ reqs[r].pc = "update"
    /\ reqs'[r].pc = "done" /\ reqs'[r].result = "RemoteFailure"

\* C11: when append_file_content or delete_from_file_content has read the file and
\* its rewrite (update) call fails, the file is left as it was before the request:
\* the failing step changes no file, and afterwards the file still holds the
\* content the request read, nothing of the new body having been written.
C11_FailedRewriteLeavesTheFile ==
    /\ [][\A r \in ReqIds : RewriteFails(r) => drive' = drive]_vars
    /\ [](\A r \in ReqIds :
            (/\ reqs[r].tool \in RewritingTools
             /\ reqs[r].result = "RemoteFailure"
             /\ CountOp(CallsOf(r), "update") = 1) =>
                RemoteText(r) = reqs[r].cur)

\* C11 witness: a delete_from_file_content of "b" read "ab", computed "a", its update
\* failed in transit, and the file still holds "ab".
C11_Witness ==
    \E r \in ReqIds :
        /\ reqs[r].tool = "delete_from_file_content" /\ reqs[r].arg = IdOf(1)
        /\ reqs[r].cur = <<"a", "b">> /\ reqs[r].body = <<"a">>
        /\ Len(CallsOf(r)) = 2
        /\ CallsOf(r)[1].op = "get" /\ CallsOf(r)[1].err = "none"
        /\ CallsOf(r)[2].op = "update" /\ CallsOf(r)[2].err = "transient"
        /\ reqs[r].result = "RemoteFailure"
        /\ drive[1].content = <<"a", "b">>


-----------------------------------------------------------------------------
(* SpecRead: read-resource over the content types.  The drive holds one file *)
(* of any of the types below, with a body that decodes or does not; one      *)
(* request at a time reads it by its uri; any remote call may fail.          *)

MimeForm == NativePrefix \o <<".", "f", "o", "r", "m">>
MimeNativeNoDot == NativePrefix \o <<"X">>
MimeTextOnly == TextPrefix
MimeTextNoSlash == <<"t", "e", "x", "t">>
MimeTextUpper == <<"T", "e", "x", "t", "/", "p", "l", "a", "i", "n">>
MimeJsonLd == MimeJson \o <<"+", "l", "d">>
MimePdf == <<"a", "p", "p", "l", "i", "c", "a", "t", "i", "o", "n", "/", "p", "d", "f">>

\* no mimeType in the provider's answer
NoMime == <<>>

ReadMimes ==
    {MimeDocument, MimeSpreadsheet, MimePresentation, MimeDrawing, MimeForm,
     NativePrefix, MimeNativeNoDot,
     MimePlain, MimeCsv, MimeMarkdown, MimeTextOnly, MimeJson,
     MimeTextNoSlash, MimeTextUpper, MimeJsonLd, MimePng, MimePdf, MimeOctet, NoMime}

ReadBodies == {<<"a", "b">>, <<"a", BadByte>>, <<>>}

ReadRequests == {ReadResource(UriPrefix \o IdOf(1))}

InitRead ==
    /\ \E m \in ReadMimes, b \in ReadBodies : drive = <<File(1, NameA, m, b)>>
    /\ drive0 = drive
    /\ reqs = NoRequests
    /\ calls = <<>>
    /\ nextId = Len(drive) + 1

NextRead ==
    \/ \E r \in ReqIds, t \in ReadRequests : StartSolo(r, t)
    \/ \E r \in ReqIds, fail \in BOOLEAN : Meta(r, fail)
    \/ \E r \in ReqIds, fail \in BOOLEAN : Export(r, fail)
    \/ \E r \in ReqIds, fail \in BOOLEAN : Media(r, fail)
    \/ \E r \in ReqIds : Retire(r)

SpecRead == InitRead /\ [][NextRead]_vars

-----------------------------------------------------------------------------
(* Claims about the read plan, under SpecRead *)

HasPrefix(s, p) == Len(p) <= Len(s) /\ \A i \in 1..Len(p) : s[i] = p[i]

\* the mime type of the file request r reads, a file without one counting as
\* application/octet-stream
MimeRead(r) ==
    LET m == drive[FindFile(reqs[r].fileId)].mimeType
    IN  IF m = NoMime THEN MimeOctet ELSE m

\* the read plan as the specification tabulates it
PlanFor(m) ==
    IF HasPrefix(m, NativePrefix)
    THEN [mode |-> "export",
          as |-> CASE m = MimeDocument -> MimeMarkdown
                   [] m = MimeSpreadsheet -> MimeCsv
                   [] m = MimePresentation -> MimePlain
                   [] m = MimeDrawing -> MimePng
                   [] OTHER -> MimePlain]
    ELSE IF HasPrefix(m, TextPrefix) \/ m = MimeJson
    THEN [mode |-> "text", as |-> m]
    ELSE [mode |-> "binary", as |-> m]

\* the plan request r followed, read off its second remote call and its result
PlanFollowed(r) ==
    LET c == CallsOf(r)[2]
    IN  [mode |-> IF c.op = "export" THEN "export"
                  ELSE IF reqs[r].kind = "text" THEN "text" ELSE "binary",
         as |-> IF c.op = "export" THEN c.body ELSE reqs[r].mime]

\* C12: the read plan is a total, deterministic function of the mime string:
\* provider-native types are exported (document as text/markdown, spreadsheet as
\* text/csv, presentation as text/plain, drawing as image/png, any other native
\* subtype as text/plain), text/* and application/json are read as raw text, every
\* other type as raw binary; once the type is known the request always goes on to
\* exactly one of the two reads, and a finished read followed the tabulated plan.
C12_PlanIsAFunctionOfTheMime ==
    \A r \in ReqIds :
        (/\ reqs[r].method = "resources/read"
         /\ Len(CallsOf(r)) >= 1 /\ CallsOf(r)[1].err = "none") =>
            /\ Len(CallsOf(r)) = 1 =>
                 reqs[r].pc = IF PlanFor(MimeRead(r)).mode = "export" THEN "export"
                              ELSE "media"
            /\ reqs[r].result = "ok" =>
                 /\ Len(CallsOf(r)) = 2
                 /\ PlanFollowed(r) = PlanFor(MimeRead(r))
                 /\ reqs[r].mime = PlanFor(MimeRead(r)).as

\* C12 witness: a drawing was exported as image/png and the read is over.
C12_Witness ==
    \E r \in ReqIds :
        /\ reqs[r].method = "resources/read" /\ reqs[r].result = "ok"
        /\ drive[1].mimeType = MimeDrawing
        /\ CallsOf(r)[2].op = "export" /\ CallsOf(r)[2].body = MimePng

\* the body of the file request r reads
BytesRead(r) == drive[FindFile(reqs[r].fileId)].content

\* C13: every successful read-resource result carries exactly one of text and blob:
\* text, and no blob, for a provider-native file (reported under the export target
\* type) and for a text/* or application/json file (reported under its own type);
\* base64 blob, and no text, for a file of any other type, reported under its own.
C13_TextOrBlobByMime ==
    \A r \in ReqIds :
        (reqs[r].method = "resources/read" /\ reqs[r].result = "ok") =>
            LET m == MimeRead(r)
                native == HasPrefix(m, NativePrefix)
                textual == HasPrefix(m, TextPrefix) \/ m = MimeJson
            IN  /\ reqs[r].kind \in {"text", "blob"}
                /\ reqs[r].kind = "text" <=> (native \/ textual)
                /\ reqs[r].kind = "text" => reqs[r].payload = Utf8Decode(BytesRead(r))
                /\ reqs[r].kind = "blob" => reqs[r].payload = Base64(BytesRead(r))
                /\ ~native => reqs[r].mime = m
                /\ m = MimeDocument => reqs[r].mime = MimeMarkdown

\* C13 witness: an image/png file whose bytes are no text came back as a blob
\* under image/png, every byte of it encoded.
C13_Witness ==
    \E r \in ReqIds :
        /\ reqs[r].method = "resources/read" /\ reqs[r].result = "ok"
        /\ drive[1].mimeType = MimePng /\ drive[1].content = <<"a", BadByte>>
        /\ reqs[r].kind = "blob" /\ reqs[r].mime = MimePng
        /\ reqs[r].payload = <<"b64.a", "b64." \o BadByte>>

-----------------------------------------------------------------------------
(* SpecUri: a uri from listing to reading.  The drive holds a file of any of *)
(* the ids below, and perhaps a second file; a client lists the resources    *)
(* and then reads a uri of the listing.                                      *)

Separator == <<":", "/", "/", "/">>

IdShort == <<"x", "1">>
IdScheme == <<"g", "d", "r", "i", "v", "e", ":">>
IdWithSeparator == <<"x">> \o UriPrefix \o <<"y">>
IdLikeUri == UriPrefix \o <<"x">>

UriIds == {IdOf(1), IdShort, NameB, IdScheme, IdWithSeparator, IdLikeUri}

UriDrives ==
    {<<[id |-> x, name |-> NameA, mimeType |-> MimePlain, content |-> <<"a">>]>> \o rest :
     x \in UriIds, rest \in {<<>>, <<File(2, NameB, MimePng, <<"b">>)>>}}

InitUri ==
    /\ drive \in UriDrives
    /\ drive0 = drive
    /\ reqs = NoRequests
    /\ calls = <<>>
    /\ nextId = Len(drive) + 1

\* a client reads a uri that a listing gave it
StartListed(r) ==
    \E q \in ReqIds :
        /\ reqs[q].pc = "done" /\ reqs[q].kind = "resources"
        /\ \E k \in 1..Len(reqs[q].payload) : StartSeq(r, ReadResource(reqs[q].payload[k].uri))

NextUri ==
    \/ \E r \in ReqIds : StartSeq(r, ListResources(NoToken))
    \/ \E r \in ReqIds, fail \in BOOLEAN : List(r, fail)
    \/ \E r \in ReqIds : StartListed(r)
    \/ \E r \in ReqIds, fail \in BOOLEAN : Lookup(r, fail)
    \/ \E r \in ReqIds, fail \in BOOLEAN : Meta(r, fail)
    \/ \E r \in ReqIds, fail \in BOOLEAN : Media(r, fail)
    \/ \E r \in ReqIds : Retire(r)

SpecUri == InitUri /\ [][NextUri]_vars

\* C14: round trip of the resource uri: for every file id that does not contain
\* the scheme separator, the uri that list-resources builds from the id, parsed the
\* way read-resource parses it, gives back exactly that id; and when the id has the
\* opaque-id shape it is the id the read goes on to use.
C14_ListedUriParsesBackToTheId ==
    \A r \in ReqIds, q \in ReqIds, k \in 1..Len(drive) :
        (/\ reqs[r].method = "resources/read"
         /\ reqs[q].pc = "done" /\ reqs[q].kind = "resources"
         /\ k <= Len(reqs[q].payload)
         /\ reqs[r].arg = reqs[q].payload[k].uri
         /\ ~Includes(drive[k].id, Separator)) =>
            /\ reqs[r].input = drive[k].id
            /\ OpaqueIdShape(drive[k].id) => reqs[r].fileId = drive[k].id

\* C14 witness: the listing gave the uri of the file of id "x1", a read of that uri
\* is under way, and what it parsed out of the uri is "x1".
C14_Witness ==
    \E r \in ReqIds, q \in ReqIds :
        /\ drive[1].id = IdShort
        /\ reqs[q].pc = "done" /\ reqs[q].kind = "resources"
        /\ reqs[q].payload[1].uri = UriPrefix \o IdShort
        /\ reqs[r].method = "resources/read" /\ reqs[r].arg = reqs[q].payload[1].uri
        /\ reqs[r].input = IdShort

-----------------------------------------------------------------------------
(* SpecList: list-resources.  The drive holds from no file to MaxListed     *)
(* files; clients list with no cursor, with a cursor of their own making or *)
(* with the cursor a listing returned; the list call may fail.              *)

\* files the drive may hold
MaxListed == 12

ListCursors == {NoToken, TokenFor(1), BadToken}

InitList ==
    /\ \E k \in 0..MaxListed : drive = [i \in 1..k |-> File(i, NameA, MimePlain, <<>>)]
    /\ drive0 = drive
    /\ reqs = NoRequests
    /\ calls = <<>>
    /\ nextId = Len(drive) + 1

\* a client asks for the page after one it was given
StartNextPage(r) ==
    \E q \in ReqIds :
        /\ reqs[q].pc = "done" /\ reqs[q].kind = "resources"
        /\ reqs[q].nextCursor # NoToken
        /\ StartSeq(r, ListResources(reqs[q].nextCursor))

NextList ==
    \/ \E r \in ReqIds, c \in ListCursors : StartSeq(r, ListResources(c))
    \/ \E r \in ReqIds : StartNextPage(r)
    \/ \E r \in ReqIds, fail \in BOOLEAN : List(r, fail)
    \/ \E r \in ReqIds : Retire(r)

SpecList == InitList /\ [][NextList]_vars

\* the uris of the files from position a to position b of the drive
UrisOf(a, b) == [i \in 1..(b - a + 1) |-> UriPrefix \o drive[a + i - 1].id]

\* C15: list-resources makes exactly one remote list call, of page size 10, and
\* hands the caller's cursor to it unchanged; it returns that one page and does not
\* follow the page tokens: with no cursor it returns the first 10 files at most, and
\* a nextCursor if and only if the drive holds more than 10 files.
C15_OnePageOfTenPerListing ==
    \A r \in ReqIds :
        reqs[r].method = "resources/list" =>
            LET cs == CallsOf(r)
                n == Len(drive)
                entries == reqs[r].payload
            IN  /\ Len(cs) = IF reqs[r].pc = "done" THEN 1 ELSE 0
                /\ \A i \in 1..Len(cs) : cs[i].op = "list" /\ cs[i].body = reqs[r].cursor
                /\ (reqs[r].result = "ok" /\ reqs[r].cursor = NoToken) =>
                     /\ Len(entries) <= 10
                     /\ Len(entries) = IF n > 10 THEN 10 ELSE n
                     /\ [i \in 1..Len(entries) |-> entries[i].uri] = UrisOf(1, Len(entries))
                     /\ reqs[r].nextCursor # NoToken <=> n > 10
                /\ (reqs[r].result = "ok" /\ reqs[r].cursor = TokenFor(10)) =>
                     /\ [i \in 1..Len(entries) |-> entries[i].uri] = UrisOf(11, n)
                     /\ reqs[r].nextCursor = NoToken

\* C15 witness: the drive holds 11 files and a listing with no cursor is over: one
\* list call, 10 entries and a nextCursor.
C15_Witness ==
    \E r \in ReqIds :
        /\ Len(drive) = 11
        /\ reqs[r].method = "resources/list" /\ reqs[r].cursor = NoToken
        /\ reqs[r].result = "ok"
        /\ Len(CallsOf(r)) = 1
        /\ Len(reqs[r].payload) = 10
        /\ reqs[r].nextCursor # NoToken

-----------------------------------------------------------------------------
(* SpecTools: the five tools that resolve their file.  The drive holds no,   *)
(* one or two files named "a" and a file named "b"; one request at a time    *)
(* names its file by a name of one file, of two, of none, or by id; any      *)
(* remote call may fail.                                                     *)

NameNone == <<"z">>

ToolArgs == {NameA, NameB, NameNone, IdOf(1), IdOf(2)}

ToolRequests ==
    {Call(n, x, <<"c">>) : n \in {"update_file_content", "append_file_content"}, x \in ToolArgs}
    \cup {Call(n, x, <<>>) : n \in {"delete_file", "read_file_content"}, x \in ToolArgs}
    \cup {Call("delete_from_file_content", x, <<"a">>) : x \in ToolArgs}

ToolDrives ==
    {[i \in 1..(k + 1) |->
        IF i <= k THEN File(i, NameA, MimePlain, <<"a">>)
        ELSE File(i, NameB, MimePlain, <<"b", "a">>)] : k \in 0..2}

InitTools ==
    /\ drive \in ToolDrives
    /\ drive0 = drive
    /\ reqs = NoRequests
    /\ calls = <<>>
    /\ nextId = Len(drive) + 1

NextTools ==
    \/ \E r \in ReqIds, t \in ToolRequests : StartSolo(r, t)
    \/ \E r \in ReqIds, fail \in BOOLEAN : Lookup(r, fail)
    \/ \E r \in ReqIds, fail \in BOOLEAN : Get(r, fail)
    \/ \E r \in ReqIds, fail \in BOOLEAN : Update(r, fail)
    \/ \E r \in ReqIds, fail \in BOOLEAN : Delete(r, fail)
    \/ \E r \in ReqIds : Retire(r)

SpecTools == InitTools /\ [][NextTools]_vars

-----------------------------------------------------------------------------
(* Claims about the resolving tools, under SpecTools *)

\* the five tools the specification has resolve their file
ToolsThatResolve == {"update_file_content", "delete_file", "read_file_content",
                     "append_file_content", "delete_from_file_content"}

\* the step in which the lookup of r is answered, and not with exactly one file
LookupFindsNoneOrSeveral(r) ==
    /\ reqs[r].tool \in ToolsThatResolve
    /\ reqs[r].pc = "lookup"
    /\ Len(calls') = Len(calls) + 1
    /\ calls'[Len(calls')].req = r /\ calls'[Len(calls')].err = "none"
    /\ Cardinality(FilesNamed(reqs[r].input)) # 1

ResolutionFailed(r) ==
    /\ reqs[r].tool \in ToolsThatResolve
    /\ reqs[r].result \in {"NotFound", "Ambiguous"}

\* C16: in update_file_content, delete_file, read_file_content, append_file_content
\* and delete_from_file_content the resolution comes before any other remote call:
\* a name is looked up first, and when the lookup finds no file or several the
\* request ends NotFound or Ambiguous there, having made no get, update or delete
\* call, and no remote file is modified or deleted by it.
C16_FailedResolutionStopsTheTool ==
    /\ [](\A r \in ReqIds :
            /\ (reqs[r].tool \in ToolsThatResolve /\ ~OpaqueIdShape(reqs[r].arg)) =>
                  \A i \in 1..Len(CallsOf(r)) : CallsOf(r)[i].op = "list" <=> i = 1
            /\ ResolutionFailed(r) =>
                  /\ Len(CallsOf(r)) = 1
                  /\ CallsOf(r)[1].op = "list" /\ CallsOf(r)[1].err = "none")
    /\ [][\A r \in ReqIds :
            /\ LookupFindsNoneOrSeveral(r) =>
                  /\ drive' = drive
                  /\ reqs'[r].pc = "done"
                  /\ reqs'[r].result = IF FilesNamed(reqs[r].input) = {} THEN "NotFound"
                                       ELSE "Ambiguous"
            /\ ResolutionFailed(r) => drive' = drive]_vars

\* C16 witness: a delete_file of the name "a", which two files bear, is over with
\* Ambiguous after its lookup alone, and both files are there.
C16_Witness ==
    \E r \in ReqIds :
        /\ reqs[r].tool = "delete_file" /\ reqs[r].arg = NameA
        /\ reqs[r].result = "Ambiguous"
        /\ Len(CallsOf(r)) = 1 /\ CallsOf(r)[1].op = "list"
        /\ Cardinality(FilesNamed(NameA)) = 2

\* the four tools that write
MutatingTools == {"update_file_content", "delete_file", "append_file_content",
                  "delete_from_file_content"}

\* the id resolveFileId returns for the argument of r: the argument itself when it
\* has the opaque-id shape, the id of the one file of that name otherwise, and no
\* id when no file or several bear the name
TargetOf(r) ==
    IF OpaqueIdShape(reqs[r].arg) THEN reqs[r].arg
    ELSE IF Cardinality(FilesNamed(reqs[r].arg)) = 1
         THEN drive[CHOOSE i \in FilesNamed(reqs[r].arg) : TRUE].id
    ELSE <<>>

\* the files other than the one of the given id
OtherFiles(d, id) == SelectSeq(d, LAMBDA f : f.id # id)

\* C17: a request for update_file_content, delete_file, append_file_content or
\* delete_from_file_content changes only the file whose id resolveFileId returned:
\* every get, update and delete call of the request carries that one id, and no step
\* of the request changes the content or the existence of any other file.
C17_OnlyTheResolvedFileChanges ==
    /\ [](\A r \in ReqIds :
            reqs[r].tool \in MutatingTools =>
                \A i \in 1..Len(CallsOf(r)) :
                    CallsOf(r)[i].op \in {"get", "update", "delete"} =>
                        /\ CallsOf(r)[i].fileId = reqs[r].fileId
                        /\ OpaqueIdShape(reqs[r].arg) => reqs[r].fileId = reqs[r].arg)
    /\ [][\A r \in ReqIds :
            (reqs[r].tool \in MutatingTools /\ InFlight(r)) =>
                /\ OtherFiles(drive', TargetOf(r)) = OtherFiles(drive, TargetOf(r))
                /\ reqs'[r].pc \in {"get", "update", "delete"} =>
                      reqs'[r].fileId = TargetOf(r)]_vars

\* C17 witness: a delete_from_file_content of "a" on the file named "b" looked the
\* name up, read and rewrote the one file of that name, which now holds "b"; the
\* two files named "a" are as they were.
C17_Witness ==
    \E r \in ReqIds :
        /\ reqs[r].tool = "delete_from_file_content" /\ reqs[r].arg = NameB
        /\ reqs[r].result = "ok"
        /\ Len(CallsOf(r)) = 3
        /\ CallsOf(r)[2].op = "get" /\ CallsOf(r)[3].op = "update"
        /\ CallsOf(r)[2].fileId = IdOf(3) /\ CallsOf(r)[3].fileId = IdOf(3)
        /\ Len(drive) = 3 /\ drive[3].content = <<"b">>
        /\ drive[1] = drive0[1] /\ drive[2] = drive0[2]

-----------------------------------------------------------------------------
(* SpecQuery: the operations that only read.  The drive holds a text file, a *)
(* provider-native document and an image; list-resources, read-resource,     *)
(* list-tools, search and read_file_content requests arrive at any time and  *)
(* their remote calls interleave; any remote call may fail.                  *)

QueryRequests ==
    {ListTools, ListResources(NoToken),
     ReadResource(UriPrefix \o IdOf(2)), ReadResource(UriPrefix \o IdOf(3)),
     Call("search", NameA, <<>>),
     Call("read_file_content", NameA, <<>>), Call("read_file_content", IdOf(3), <<>>)}

InitQuery ==
    /\ drive = <<File(1, NameA, MimePlain, <<"a", "b">>),
                 File(2, NameB, MimeDocument, <<"d">>),
                 File(3, NamePng, MimePng, <<BadByte>>)>>
    /\ drive0 = drive
    /\ reqs = NoRequests
    /\ calls = <<>>
    /\ nextId = Len(drive) + 1

NextQuery ==
    \/ \E r \in ReqIds, t \in QueryRequests : Start(r, t)
    \/ \E r \in ReqIds, fail \in BOOLEAN : Lookup(r, fail)
    \/ \E r \in ReqIds, fail \in BOOLEAN : Get(r, fail)
    \/ \E r \in ReqIds, fail \in BOOLEAN : Search(r, fail)
    \/ \E r \in ReqIds, fail \in BOOLEAN : List(r, fail)
    \/ \E r \in ReqIds, fail \in BOOLEAN : Meta(r, fail)
    \/ \E r \in ReqIds, fail \in BOOLEAN : Export(r, fail)
    \/ \E r \in ReqIds, fail \in BOOLEAN : Media(r, fail)
    \/ \E r \in ReqIds : Retire(r)

SpecQuery == InitQuery /\ [][NextQuery]_vars

\* the operations the specification calls queries
IsQuery(req) ==
    \/ req.method \in {"resources/list", "resources/read", "tools/list"}
    \/ req.method = "tools/call" /\ req.tool \in {"search", "read_file_content"}

WriteOps == {"create", "update", "delete"}

\* C18: list-resources, read-resource, list-tools, search and read_file_content
\* never issue a create, update or delete call: no such request is ever about to
\* make one or has made one, and after any interleaving of such requests the drive
\* holds the files it held, each with the content it had.
C18_QueriesNeverWrite ==
    /\ \A r \in ReqIds : (reqs[r].pc # "idle" /\ IsQuery(reqs[r])) => reqs[r].pc \notin WriteOps
    /\ \A i \in 1..Len(calls) : IsQuery(reqs[calls[i].req]) => calls[i].op \notin WriteOps
    /\ (\A r \in ReqIds : reqs[r].pc = "idle" \/ IsQuery(reqs[r])) => drive = drive0

\* C18 witness: a read_file_content and a read-resource interleaved their calls and
\* both are over; the three files are as they were.
C18_Witness ==
    /\ reqs[1].tool = "read_file_content" /\ reqs[1].result = "ok"
    /\ reqs[2].method = "resources/read" /\ reqs[2].result = "ok"
    /\ Len(calls) = 4
    /\ calls[1].req = 1 /\ calls[2].req = 2 /\ calls[3].req = 1 /\ calls[4].req = 2
    /\ drive = drive0

=============================================================================
